---- MODULE Spec2Model ----
(***************************************************************************)
(* A model of epicode.py (src/bin/epicode.py): read-coverage extraction,   *)
(* pair scaling, gain/loss aggregation and the pipelines that chain them.  *)
(*                                                                         *)
(* The program is a set of independent tasks, so the model is a set of     *)
(* components over disjoint variables, each with its own specification:    *)
(*   SpecGL    scale_differential's row walk                               *)
(*   SpecDiff  parse_bam_differential                                      *)
(*   SpecAbs   parse_bam_absolute                                          *)
(*   SpecPair  scapair / size_factors                                      *)
(*   SpecSca   scarr / dsig                                                *)
(*   SpecName  the gain/loss column names of scale_differential            *)
(*   SpecShort the column names of process_bam_*                           *)
(*   SpecRace  two concurrent invocations of one extraction                *)
(*   SpecBed   parse_bed                                                   *)
(*   SpecIO    the matrix file written by one stage and read by the next   *)
(*   Spec      the absolute / differential / discriminatory pipelines,     *)
(*             their extraction stage and the worker pool                  *)
(* A specification leaves the variables of the other components at their   *)
(* initial values.                                                         *)
(*                                                                         *)
(* Numbers.  Floating-point values that the code obtains by a division are *)
(* kept as exact fractions <<numerator, denominator>>; the not-a-number    *)
(* marker is the value NaN.  Logarithms are kept exactly as well, see the  *)
(* scapair section.                                                        *)
(***************************************************************************)
EXTENDS Integers, Sequences, FiniteSets, TLC

VARIABLES
    \* scale_differential
    scaled,     \* the matrix read from the input file (rows of A,B columns)
    i,          \* index of the next row of dcols to read (0-based, as in the code)
    j,          \* rows read in the current block
    gl,         \* the gain/loss columns, one list per input column
    glpc        \* position: "load", then the position of the row walk

VARIABLES
    \* parse_bam_differential
    dregs,      \* regs: the regions, in input order
    step,       \* the window width
    acount,     \* counts of the A file, with a -1 after each region
    bcount,     \* counts of the B file, with a -1 after each region
    dreg,       \* number of regions entered by "for reg in regs"
    s,          \* start of the next window of the current region
    oldchr,     \* chromosome of the last progress message
    dqueries,   \* the intervals passed to the alignment files' count, in order
    dpc         \* position in parse_bam_differential

VARIABLES
    \* parse_bam_absolute
    aregs,      \* regs: the regions, in input order
    afn,        \* the alignment file
    count,      \* the normalized counts returned
    areg,       \* number of regions entered by "for reg in regs"
    aqueries,   \* the intervals passed to the alignment file's count, in order
    apc         \* position in parse_bam_absolute

VARIABLES
    \* scapair
    raw,        \* the paired count matrix
    method,     \* the pair-scaling algorithm name
    pscaled,    \* scapair's local "scaled": the matrix returned
    col1,       \* first column (0-based) of the pair scaled next
    ppc         \* position in scapair

VARIABLES
    \* the pipelines, their extraction stage and the worker pool
    fs,         \* the output directory: how often each file has been written
    invs,       \* invocations started so far
    call,       \* the arguments of the running invocation, as the caller gave them
    pc,         \* position of the running invocation
    bedi,       \* discriminatory: index i of the bed file being processed
    abams,      \* extract_differential: the sorted A list (bams in absolute mode)
    bbams,      \* extract_differential: the sorted B list
    names,      \* the column names computed by process_bam_*
    pool,       \* the tasks given to the worker pool: "running" or "done"
    order,      \* the order in which the tasks completed
    columns,    \* the (name, data) columns of the matrix written by the extraction
    dispatched, \* tasks given to the pool by this invocation
    nwritten,   \* files written by this invocation
    err         \* the error that ended the invocation, or "none"

VARIABLES
    \* the matrix file format: a stage writes, the next stage reads
    wnames,     \* the column names the writing stage holds
    wshape,     \* the shape <<rows, columns>> of the matrix it holds
    header,     \* the first line of the file, a string
    body,       \* the data lines of the file: <<lines, fields per line>>
    rnames,     \* the names the reading stage obtains
    rshape,     \* the shape of the array the reading stage obtains
    iopc        \* position: "write", "read", "done"

VARIABLES
    \* scarr
    sarr,       \* the matrix given to scarr: rows of values, in tenths
    smethod,    \* the method name
    sdata,      \* data = arr.T: one list per column, scaled in place
    srow,       \* sigmoid: the columns scaled so far
    scpc        \* position: "start", "rows", "return", "done", "ValueError"

VARIABLES
    \* the column names of scale_differential
    gname,      \* a column name read from the input file
    glname,     \* the gain/loss name made of it
    gnpc        \* position: "start", "done"

VARIABLES
    \* parse_bed
    blines,     \* the lines of the BED file: <<chromosome, start, end>>
    bline,      \* lines read so far
    regions,    \* the regions kept so far
    bpc         \* position: "lines", "done"

VARIABLES
    \* process_bam_absolute / process_bam_differential: the column names
    sbams,      \* the basenames of bams (absolute) or abams (differential)
    sbbams,     \* the basenames of bbams
    smode,      \* "absolute" or "differential"
    sshorten,   \* the shorten argument
    snames,     \* the names computed
    spc         \* position: "start", "done", "AssertionError"

VARIABLES
    \* two concurrent invocations of extract_absolute / extract_differential
    \* with the same run identifier and output directory
    rmode,      \* "absolute" or "differential"
    rrows,      \* data rows of the matrix each invocation writes
    rexists,    \* the output file exists in the directory
    rfile,      \* the lines of the output file, each marked with its writer
    rpc,        \* position of each invocation
    roff        \* lines written by each invocation through its own handle

glvars == <<scaled, i, j, gl, glpc>>
diffvars == <<dregs, step, acount, bcount, dreg, s, oldchr, dqueries, dpc>>
absvars == <<aregs, afn, count, areg, aqueries, apc>>

pairvars == <<raw, method, pscaled, col1, ppc>>
pipevars == <<fs, invs, call, pc, bedi, abams, bbams, names, pool, order, columns,
              dispatched, nwritten, err>>

iovars == <<wnames, wshape, header, body, rnames, rshape, iopc>>

scavars == <<sarr, smethod, sdata, srow, scpc>>

namevars == <<gname, glname, gnpc>>

bedvars == <<blines, bline, regions, bpc>>

shortvars == <<sbams, sbbams, smode, sshorten, snames, spc>>

racevars == <<rmode, rrows, rexists, rfile, rpc, roff>>

vars == <<glvars, diffvars, absvars, pairvars, pipevars, iovars, scavars, namevars, bedvars,
          shortvars, racevars>>

\* What a step of one component leaves alone: the other components.
GLFrame == UNCHANGED <<diffvars, absvars, pairvars, pipevars, iovars, scavars, namevars, bedvars, shortvars, racevars>>
DiffFrame == UNCHANGED <<glvars, absvars, pairvars, pipevars, iovars, scavars, namevars, bedvars, shortvars, racevars>>
AbsFrame == UNCHANGED <<glvars, diffvars, pairvars, pipevars, iovars, scavars, namevars, bedvars, shortvars, racevars>>
PairFrame == UNCHANGED <<glvars, diffvars, absvars, pipevars, iovars, scavars, namevars, bedvars, shortvars, racevars>>
PipeFrame == UNCHANGED <<glvars, diffvars, absvars, pairvars, iovars, scavars, namevars, bedvars, shortvars, racevars>>
IOFrame == UNCHANGED <<glvars, diffvars, absvars, pairvars, pipevars, scavars, namevars, bedvars, shortvars, racevars>>
ScaFrame == UNCHANGED <<glvars, diffvars, absvars, pairvars, pipevars, iovars, namevars, bedvars, shortvars, racevars>>
NameFrame == UNCHANGED <<glvars, diffvars, absvars, pairvars, pipevars, iovars, scavars, bedvars, shortvars, racevars>>
BedFrame == UNCHANGED <<glvars, diffvars, absvars, pairvars, pipevars, iovars, scavars, namevars, shortvars, racevars>>
ShortFrame == UNCHANGED <<glvars, diffvars, absvars, pairvars, pipevars, iovars, scavars, namevars, bedvars, racevars>>
RaceFrame == UNCHANGED <<glvars, diffvars, absvars, pairvars, pipevars, iovars, scavars, namevars, bedvars, shortvars>>

\* A float is a fraction <<numerator, denominator>> with a positive
\* denominator; not-a-number is the fraction 0/0.
NaN == <<0, 0>>

IsNaN(v) == v[2] = 0

\* float(n) of an integer
Float(n) == <<n, 1>>

\* b - a, a + b and a / k (k an integer) on floats; NaN propagates
FSub(b, a) == IF IsNaN(a) \/ IsNaN(b) THEN NaN ELSE <<b[1] * a[2] - a[1] * b[2], a[2] * b[2]>>
FAdd(a, b) == IF IsNaN(a) \/ IsNaN(b) THEN NaN ELSE <<a[1] * b[2] + b[1] * a[2], a[2] * b[2]>>
FDivInt(a, k) == IF IsNaN(a) THEN NaN ELSE <<a[1], a[2] * k>>

\* comparisons of floats that are numbers
FEq(a, b) == ~IsNaN(a) /\ ~IsNaN(b) /\ a[1] * b[2] = b[1] * a[2]
FPos(a) == ~IsNaN(a) /\ a[1] > 0
FNeg(a) == ~IsNaN(a) /\ a[1] < 0
FZero(a) == ~IsNaN(a) /\ a[1] = 0

(***************************************************************************)
(* scale_differential (lines 375-423)                                      *)
(***************************************************************************)

\* The marks of the input matrix: columns are (mark:a, mark:b) per mark.
Marks == <<"m1", "m2">>

NMarks == Len(Marks)

\* Longest input matrix drawn.
MaxRowsGL == 3

\* The (A, B) values one mark can have in one row of the input: a missing
\* pair, a pair missing on one side, and pairs with delta +5, -1 and 0.
PairVals == { <<NaN, NaN>>, <<NaN, Float(1)>>, <<Float(0), Float(5)>>,
              <<Float(1), Float(0)>> }

\* A row of the input: the pairs of all marks, flattened to A,B,A,B...
RowOf(ps) == [c \in 1..(2 * NMarks) |-> ps[(c + 1) \div 2][2 - (c % 2)]]

GLRows == { RowOf(ps) : ps \in [1..NMarks -> PairVals] }

GLInputs == UNION { [1..n -> GLRows] : n \in 1..MaxRowsGL }

\* scaled[:,0::2] and scaled[:,1::2] of one row
acols(row) == [c \in 1..NMarks |-> row[2 * c - 1]]
bcols(row) == [c \in 1..NMarks |-> row[2 * c]]

\* dcols = bcols - acols, row r (1-based)
dcols(r) == [c \in 1..NMarks |-> FSub(bcols(scaled[r])[c], acols(scaled[r])[c])]

\* np.isnan(row).any()
AnyNaN(row) == \E c \in 1..Len(row) : IsNaN(row[c])

\* scaled.shape[0] and scaled.shape[1]
NRows == Len(scaled)
NCols == 2 * NMarks

\* col[-1] += v on a column whose last entry is still a plain sum
AddLast(col, v) == [col EXCEPT ![Len(col)] = FAdd(@, v)]

\* The gain (offset 0) and loss (offset 1) column of a delta column c
\* (0-based c in the code: gl[(c*2) + 0], gl[(c*2) + 1]).
GainCol(c) == 2 * (c - 1) + 1
LossCol(c) == 2 * (c - 1) + 2

\* One pass of "for c, v in enumerate(row)": add the row's deltas.
Accumulate(g, row) ==
    [k \in 1..NCols |->
        LET c == (k + 1) \div 2
            v == row[c]
        IN  IF k = GainCol(c) /\ FPos(v) THEN AddLast(g[k], v)
            ELSE IF k = LossCol(c) /\ FNeg(v) THEN AddLast(g[k], FSub(Float(0), v))
            ELSE g[k]]

\* A walk that tests the row before it counts it: j holds the windows only.
CountRowAfterTest(jj) == jj

\* The rows counted in j when the missing-value row ends the block: the code
\* increments j before it tests the row.
CountRowBeforeTest(jj) == jj + 1

\* col[-1] /= float(j)
DivideLast(col, jj) == [col EXCEPT ![Len(col)] = FDivInt(@, jj)]

GLInit ==
    /\ scaled \in GLInputs
    /\ i = 0
    /\ j = 0
    /\ gl = [k \in 1..NCols |-> <<>>]
    /\ glpc = "load"

\* np.loadtxt drops the dimensions of length one: a file with one data row
\* is read as a one-dimensional array
OneDimensional == NRows = 1

\* scaled = np.loadtxt(fh); acols = scaled[:,0::2]: two indices into a
\* one-dimensional array raise IndexError (too many indices)
GLLoad ==
    /\ glpc = "load"
    /\ glpc' = IF OneDimensional THEN "TooManyIndices" ELSE "outer"
    /\ UNCHANGED <<scaled, i, j, gl>>
    /\ GLFrame

\* while i < dcols.shape[0]: j = 0; for col in gl: col.append(0.0)
GLOpenBlock ==
    /\ glpc = "outer"
    /\ i < NRows
    /\ j' = 0
    /\ gl' = [k \in 1..NCols |-> Append(gl[k], Float(0))]
    /\ glpc' = "inner"
    /\ UNCHANGED <<scaled, i>>
    /\ GLFrame

\* while True: row = dcols[i] with i past the last row raises IndexError
GLReadPastEnd ==
    /\ glpc = "inner"
    /\ i >= NRows
    /\ glpc' = "IndexError"
    /\ UNCHANGED <<scaled, i, j, gl>>
    /\ GLFrame

\* row = dcols[i]; i += 1; j += 1; a row with a missing value ends the block
GLReadMissing ==
    /\ glpc = "inner"
    /\ i < NRows
    /\ AnyNaN(dcols(i + 1))
    /\ i' = i + 1
    /\ j' = CountRowBeforeTest(j)
    /\ glpc' = "divide"
    /\ UNCHANGED <<scaled, gl>>
    /\ GLFrame

\* row = dcols[i]; i += 1; j += 1; the deltas of a window row are added
GLReadWindow ==
    /\ glpc = "inner"
    /\ i < NRows
    /\ ~AnyNaN(dcols(i + 1))
    /\ i' = i + 1
    /\ j' = j + 1
    /\ gl' = Accumulate(gl, dcols(i + 1))
    /\ UNCHANGED <<scaled, glpc>>
    /\ GLFrame

\* for col in gl: col[-1] /= float(j)   (float division by zero raises)
GLDivide ==
    /\ glpc = "divide"
    /\ IF j = 0
       THEN glpc' = "ZeroDivisionError" /\ UNCHANGED gl
       ELSE /\ gl' = [k \in 1..NCols |-> DivideLast(gl[k], j)]
            /\ glpc' = "outer"
    /\ UNCHANGED <<scaled, i, j>>
    /\ GLFrame

\* the outer loop ends; gla = np.column_stack(gl) is written
GLFinish ==
    /\ glpc = "outer"
    /\ i >= NRows
    /\ glpc' = "done"
    /\ UNCHANGED <<scaled, i, j, gl>>
    /\ GLFrame

GLNext ==
    \/ GLLoad
    \/ GLOpenBlock
    \/ GLReadPastEnd
    \/ GLReadMissing
    \/ GLReadWindow
    \/ GLDivide
    \/ GLFinish

(***************************************************************************)
(* The alignment-file collaborator (pysam.Samfile.count)                   *)
(***************************************************************************)

\* The reads of an alignment file: <<chromosome, position>> of each read.
BamReads(fn) ==
    IF fn = "a.bam" THEN << <<"chr1", 0>>, <<"chr1", 0>>, <<"chr1", 2>>, <<"chr1", 3>>, <<"chr2", 1>> >>
    ELSE IF fn = "b.bam" THEN << <<"chr1", 1>>, <<"chr1", 4>>, <<"chr2", 0>>, <<"chr2", 0>>, <<"chr2", 2>> >>
    ELSE << >>

\* bam.count(chr, start, end): the reads of the file in [start, end) of chr
BamCount(fn, chr, start, end) ==
    Cardinality({k \in DOMAIN BamReads(fn) :
                    /\ BamReads(fn)[k][1] = chr
                    /\ start <= BamReads(fn)[k][2]
                    /\ BamReads(fn)[k][2] < end})

\* Largest coordinate of a region, and most regions in a list.
MaxCoord == 3
MaxRegs == 2

Chroms == {"chr1", "chr2"}

\* Regions <<chr, start, end>> as parse_bed's callers expect them: 0 <= start <= end.
Regions == { <<c, st, en>> : c \in Chroms, st \in 0..MaxCoord, en \in 0..MaxCoord }
RegionsOrdered == { r \in Regions : r[2] <= r[3] }

RegionLists == UNION { [1..n -> RegionsOrdered] : n \in 0..MaxRegs }

(***************************************************************************)
(* parse_bam_differential (lines 249-273)                                  *)
(***************************************************************************)

\* Largest window width drawn.
MaxStep == 2

\* The loop test of the window loop written with <= instead of <.
WindowInRangeInclusive(st, en) == st <= en

\* xrange(start, end, step) yields s while s < end
WindowInRange(st, en) == st < en

DiffInit ==
    /\ dregs \in RegionLists
    /\ step \in 1..MaxStep
    /\ acount = <<>>
    /\ bcount = <<>>
    /\ dreg = 0
    /\ s = 0
    /\ oldchr = "chr1"
    /\ dqueries = <<>>
    /\ dpc = "regs"

\* for reg in regs: chr, start, end = reg[:3]; the progress message
DiffEnterRegion ==
    /\ dpc = "regs"
    /\ dreg < Len(dregs)
    /\ dreg' = dreg + 1
    /\ s' = dregs[dreg + 1][2]
    /\ oldchr' = dregs[dreg + 1][1]
    /\ dpc' = "windows"
    /\ UNCHANGED <<dregs, step, acount, bcount, dqueries>>
    /\ DiffFrame

\* for s in xrange(start, end, step): e = s + step; count both files
DiffWindow ==
    /\ dpc = "windows"
    /\ WindowInRange(s, dregs[dreg][3])
    /\ LET chr == dregs[dreg][1]
           e == s + step
       IN  /\ acount' = Append(acount, BamCount("a.bam", chr, s, e))
           /\ bcount' = Append(bcount, BamCount("b.bam", chr, s, e))
           /\ dqueries' = Append(dqueries, <<dreg, chr, s, e>>)
    /\ s' = s + step
    /\ UNCHANGED <<dregs, step, dreg, oldchr, dpc>>
    /\ DiffFrame

\* after the last window: acount.append(-1); bcount.append(-1)
DiffSentinel ==
    /\ dpc = "windows"
    /\ ~WindowInRange(s, dregs[dreg][3])
    /\ acount' = Append(acount, -1)
    /\ bcount' = Append(bcount, -1)
    /\ dpc' = "regs"
    /\ UNCHANGED <<dregs, step, dreg, s, oldchr, dqueries>>
    /\ DiffFrame

\* return acount, bcount
DiffReturn ==
    /\ dpc = "regs"
    /\ dreg = Len(dregs)
    /\ dpc' = "done"
    /\ UNCHANGED <<dregs, step, acount, bcount, dreg, s, oldchr, dqueries>>
    /\ DiffFrame

DiffNext ==
    \/ DiffEnterRegion
    \/ DiffWindow
    \/ DiffSentinel
    \/ DiffReturn

(***************************************************************************)
(* parse_bam_absolute (lines 172-182)                                      *)
(***************************************************************************)

\* The count divided by the end coordinate instead of the length.
NormalizeByEnd(n, st, en) == <<n, en>>

\* float(n) / (end - start)
Normalize(n, st, en) == FDivInt(Float(n), en - st)

AbsInit ==
    /\ aregs \in RegionLists
    /\ afn \in {"a.bam", "b.bam"}
    /\ count = <<>>
    /\ areg = 0
    /\ aqueries = <<>>
    /\ apc = "regs"

\* for reg in regs: n = bam.count(chr, start, end); count.append(float(n) / (end - start))
AbsRegion ==
    /\ apc = "regs"
    /\ areg < Len(aregs)
    /\ LET chr == aregs[areg + 1][1]
           st == aregs[areg + 1][2]
           en == aregs[areg + 1][3]
           n == BamCount(afn, chr, st, en)
       IN  /\ aqueries' = Append(aqueries, <<chr, st, en>>)
           /\ areg' = areg + 1
           /\ IF en - st = 0
              THEN apc' = "ZeroDivisionError" /\ UNCHANGED count
              ELSE count' = Append(count, Normalize(n, st, en)) /\ UNCHANGED apc
    /\ UNCHANGED <<aregs, afn>>
    /\ AbsFrame

\* return count
AbsReturn ==
    /\ apc = "regs"
    /\ areg = Len(aregs)
    /\ apc' = "done"
    /\ UNCHANGED <<aregs, afn, count, areg, aqueries>>
    /\ AbsFrame

AbsNext ==
    \/ AbsRegion
    \/ AbsReturn

(***************************************************************************)
(* scapair and size_factors (lines 71-99)                                  *)
(*                                                                         *)
(* The values of this component are kept in the logarithmic domain, where  *)
(* size_factors computes: a positive value is Pow(x), standing for         *)
(* 2^(x / LogUnit), so that log, mean, median and exp are exact integer    *)
(* operations on x (the base of the logarithm cancels between np.log and   *)
(* np.exp).  Counts are drawn from the powers of two.  The other values    *)
(* are zero, the sentinel -1 and not-a-number.                             *)
(***************************************************************************)

\* Exponents are counted in units of 1/LogUnit: two rounds of halving by a
\* row mean and by a median of an even number of rows stay exact.
LogUnit == 16

PNaN == <<"nan", 0>>
PZero == <<"zero", 0>>
PSentinel == <<"sentinel", 0>>
Pow(x) == <<"pow", x>>

Log2(n) == CASE n = 1 -> 0 [] n = 2 -> 1 [] n = 4 -> 2 [] n = 8 -> 3

\* a count as np.loadtxt returns it
FromCount(n) ==
    IF n = -1 THEN PSentinel ELSE IF n = 0 THEN PZero ELSE Pow(LogUnit * Log2(n))

\* Longest count matrix drawn.
MaxRowsPair == 3

\* The (A, B) counts one pair can have in one row: a sentinel row, a window
\* with a zero count, and windows with B/A = 4 and 1/2.
PairCounts == { <<-1, -1>>, <<0, 2>>, <<1, 4>>, <<2, 1>> }

RawRowOf(ps) == [c \in 1..(2 * NMarks) |-> FromCount(ps[(c + 1) \div 2][2 - (c % 2)])]

RawRows == { RawRowOf(ps) : ps \in [1..NMarks -> PairCounts] }

RawInputs == UNION { [1..n -> RawRows] : n \in 1..MaxRowsPair }

\* np.median of the values f[r], r in the finite set Q: the middle value, the
\* mean of the two middle values, or not-a-number for no value at all
KthSmallest(Q, f, k) ==
    CHOOSE v \in {f[r] : r \in Q} :
        /\ Cardinality({r \in Q : f[r] < v}) < k
        /\ k <= Cardinality({r \in Q : f[r] <= v})

Median(Q, f) ==
    LET n == Cardinality(Q)
    IN  IF n = 0 THEN PNaN
        ELSE IF n % 2 = 1 THEN Pow(KthSmallest(Q, f, (n + 1) \div 2))
        ELSE Pow((KthSmallest(Q, f, n \div 2) + KthSmallest(Q, f, n \div 2 + 1)) \div 2)

\* counts[np.alltrue(counts, axis=1)]: the rows of R with no zero in the pair
NonZeroRows(M, R, c) == {r \in R : M[r][c] # PZero /\ M[r][c + 1] # PZero}

\* size_factors(counts) for the pair in columns c, c+1 (1-based) of M
\* restricted to the rows R: <<factor of column c, factor of column c+1>>
size_factors(M, R, c) ==
    LET Q == NonZeroRows(M, R, c)
        loggeommeans == [r \in Q |-> (M[r][c][2] + M[r][c + 1][2]) \div 2]
        da == [r \in Q |-> M[r][c][2] - loggeommeans[r]]
        db == [r \in Q |-> M[r][c + 1][2] - loggeommeans[r]]
    IN  <<Median(Q, da), Median(Q, db)>>

\* one value divided by a size factor
DivVal(v, f) ==
    IF v = PNaN \/ f = PNaN THEN PNaN
    ELSE IF v = PZero THEN PZero
    ELSE Pow(v[2] - f[2])

\* Both columns of the pair divided by the factor of its first column.
DividePairByFirst(a, b, sf) == <<DivVal(a, sf[1]), DivVal(b, sf[1])>>

\* pair / sf: each column by its own factor
DividePair(a, b, sf) == <<DivVal(a, sf[1]), DivVal(b, sf[2])>>

\* sel = np.alltrue(raw != -1, axis=1)
sel == {r \in 1..Len(raw) : \A c \in 1..(2 * NMarks) : raw[r][c] # PSentinel}

PairInit ==
    /\ raw \in RawInputs
    /\ method \in {"deseq", "other"}
    /\ pscaled = <<>>
    /\ col1 = 0
    /\ ppc = "start"

\* scaled = np.array(raw, dtype=float); scaled[raw == -1] = np.nan
PairStart ==
    /\ ppc = "start"
    /\ method = "deseq"
    /\ pscaled' = [r \in 1..Len(raw) |->
                     [c \in 1..(2 * NMarks) |->
                        IF raw[r][c] = PSentinel THEN PNaN ELSE raw[r][c]]]
    /\ col1' = 0
    /\ ppc' = "pairs"
    /\ UNCHANGED <<raw, method>>
    /\ PairFrame

\* else: raise ValueError("unknown method")
PairUnknownMethod ==
    /\ ppc = "start"
    /\ method # "deseq"
    /\ ppc' = "ValueError"
    /\ UNCHANGED <<raw, method, pscaled, col1>>
    /\ PairFrame

\* sf = size_factors(pair); scaled[sel, col1:col1+2] = pair / sf
PairScale ==
    /\ ppc = "pairs"
    /\ col1 < 2 * NMarks
    /\ LET c == col1 + 1
           sf == size_factors(raw, sel, c)
       IN  pscaled' = [r \in 1..Len(raw) |->
                        IF r \in sel
                        THEN [pscaled[r] EXCEPT
                                ![c] = DividePair(raw[r][c], raw[r][c + 1], sf)[1],
                                ![c + 1] = DividePair(raw[r][c], raw[r][c + 1], sf)[2]]
                        ELSE pscaled[r]]
    /\ col1' = col1 + 2
    /\ UNCHANGED <<raw, method, ppc>>
    /\ PairFrame

\* np.median over an axis of length 0: the numpy releases differ, the newer
\* give not-a-number (PairScale), the older raise from the partition
PairMedianOfEmpty ==
    /\ ppc = "pairs"
    /\ col1 < 2 * NMarks
    /\ NonZeroRows(raw, sel, col1 + 1) = {}
    /\ ppc' = "MedianError"
    /\ UNCHANGED <<raw, method, pscaled, col1>>
    /\ PairFrame

\* return scaled
PairReturn ==
    /\ ppc = "pairs"
    /\ col1 >= 2 * NMarks
    /\ ppc' = "done"
    /\ UNCHANGED <<raw, method, pscaled, col1>>
    /\ PairFrame

PairNext ==
    \/ PairStart
    \/ PairUnknownMethod
    \/ PairScale
    \/ PairMedianOfEmpty
    \/ PairReturn

(***************************************************************************)
(* Strings: a string is the sequence of its characters                     *)
(***************************************************************************)

\* sub in x
Contains(x, sub) ==
    \E k \in 1..(Len(x) - Len(sub) + 1) : SubSeq(x, k, k + Len(sub) - 1) = sub

RECURSIVE CommonSubLoop(_, _, _)
\* the loop of common_sub over i, with substr the best so far; the inner loop
\* over j leaves the longest data[0][i:i+j] that is longer than substr and
\* found in every string
CommonSubLoop(data, ii, substr) ==
    IF ii >= Len(data[1]) THEN substr
    ELSE LET J == {jj \in 0..(Len(data[1]) - ii) :
                     /\ jj > Len(substr)
                     /\ \A x \in 1..Len(data) :
                           Contains(data[x], SubSeq(data[1], ii + 1, ii + jj))}
             best == CHOOSE jj \in J : \A other \in J : other <= jj
         IN  CommonSubLoop(data, ii + 1,
                IF J = {} THEN substr ELSE SubSeq(data[1], ii + 1, ii + best))

\* common_sub(data): the longest substring of data[0] found in every string
common_sub(data) ==
    IF Len(data) > 1 /\ Len(data[1]) > 0 THEN CommonSubLoop(data, 0, <<>>) ELSE <<>>

\* A replacement of the first occurrence only: x.replace(fx, "", 1).
StrRemoveFirst(x, fx) ==
    IF \E k \in 1..(Len(x) - Len(fx) + 1) : SubSeq(x, k, k + Len(fx) - 1) = fx
    THEN LET k == CHOOSE k \in 1..(Len(x) - Len(fx) + 1) :
                     /\ SubSeq(x, k, k + Len(fx) - 1) = fx
                     /\ \A h \in 1..(k - 1) : SubSeq(x, h, h + Len(fx) - 1) # fx
         IN  SubSeq(x, 1, k - 1) \o SubSeq(x, k + Len(fx), Len(x))
    ELSE x

RECURSIVE StrRemove(_, _)
\* x.replace(fx, "") for a non-empty fx
StrRemove(x, fx) ==
    IF Len(x) < Len(fx) THEN x
    ELSE IF SubSeq(x, 1, Len(fx)) = fx THEN StrRemove(SubSeq(x, Len(fx) + 1, Len(x)), fx)
    ELSE <<Head(x)>> \o StrRemove(Tail(x), fx)

RECURSIVE BeforeUnderscore(_)
\* x.split("_", 1)[0]
BeforeUnderscore(x) ==
    IF x = <<>> \/ Head(x) = "_" THEN <<>> ELSE <<Head(x)>> \o BeforeUnderscore(Tail(x))

\* the characters of the file names, in ASCII order
Alphabet == <<"2", "4", "7", "9", "K", "_", "a", "c", "e", "h", "i", "k", "l",
              "m", "n", "o", "p", "r", "s", "t">>

CharRank(ch) == CHOOSE k \in 1..Len(Alphabet) : Alphabet[k] = ch

RECURSIVE StrLess(_, _)
\* x < y on strings
StrLess(x, y) ==
    IF y = <<>> THEN FALSE
    ELSE IF x = <<>> THEN TRUE
    ELSE IF Head(x) = Head(y) THEN StrLess(Tail(x), Tail(y))
    ELSE CharRank(Head(x)) < CharRank(Head(y))

Range(f) == {f[k] : k \in DOMAIN f}

\* tuple(sorted(xs)) for a list of distinct strings
sorted(xs) ==
    [k \in 1..Len(xs) |->
        CHOOSE x \in Range(xs) : Cardinality({y \in Range(xs) : StrLess(y, x)}) = k - 1]

(***************************************************************************)
(* The pipelines (absolute, differential, discriminatory), the extraction  *)
(* tasks (extract_absolute, extract_differential) and run_par              *)
(***************************************************************************)

\* Invocations in one run of the model, and files in one list.
MaxInvocations == 2
MaxFiles == 2

\* The alignment files, named by their basename without extension.
AbsFiles == { <<"k", "4", "_", "s", "a", "m", "p", "l", "e">>,
              <<"k", "9", "_", "s", "a", "m", "p", "l", "e">>,
              <<"k", "2", "7", "_", "r", "e", "p">> }

AFiles == { <<"h", "i", "s", "t", "o", "n", "e", "K", "4", "_", "c", "t", "l">>,
            <<"h", "i", "s", "t", "o", "n", "e", "K", "9", "_", "c", "t", "l">> }

BFiles == { <<"h", "i", "s", "t", "o", "n", "e", "K", "4", "_", "t", "r", "t">>,
            <<"h", "i", "s", "t", "o", "n", "e", "K", "9", "_", "t", "r", "t">> }

\* the lists of 1..MaxFiles distinct files of a set
FileLists(F) ==
    { xs \in UNION { [1..n -> F] : n \in 1..MaxFiles } :
        \A a, b \in 1..Len(xs) : a # b => xs[a] # xs[b] }

RunIds == {"r1"}

Tasks == {"absolute", "differential", "discriminatory", "extract_absolute", "extract_differential"}

IsDifferential(t) == t \in {"differential", "extract_differential"}
IsPipeline(t) == t \in {"absolute", "differential", "discriminatory"}

\* the bed files of discriminatory, by index i
NBeds == Len(<<"promoters.bed", "enhancers.bed">>)
BedTag(k) == IF k = 0 THEN "0" ELSE "1"

\* What a caller can pass.  The arguments a task never reads are fixed.
Calls ==
    { c \in [task : Tasks, runid : RunIds,
             bams : FileLists(AbsFiles) \cup {<<>>},
             abams : FileLists(AFiles) \cup {<<>>},
             bbams : FileLists(BFiles) \cup {<<>>},
             shorten : BOOLEAN, c : {"None", "4"},
             colsca : {"sig95", "zscore"}, pairsca : {"deseq", "tmm"}] :
        /\ IsDifferential(c.task) =>
              c.bams = <<>> /\ c.abams # <<>> /\ Len(c.abams) = Len(c.bbams)
        /\ ~IsDifferential(c.task) => c.bams # <<>> /\ c.abams = <<>> /\ c.bbams = <<>>
        /\ c.task # "differential" => c.pairsca = "deseq"
        /\ ~IsPipeline(c.task) => c.c = "4" /\ c.colsca = "sig95" }

NoCall == [task |-> "none"]

\* The files of the output directory: <<bed index prefix, runid, suffix>>.
Suffixes == {"lvl", "lvl_sca", "lvl_sca_epi", "lvl_sca_arr",
             "cnt", "cnt_deseq", "cnt_deseq_lvl", "cnt_deseq_lvl_sca",
             "cnt_deseq_lvl_sca_epi", "cnt_deseq_lvl_sca_arr",
             "multi_epi", "multi_arr"}
FileNames == {"", "0", "1"} \X RunIds \X Suffixes

\* the runid extract_* is called with: "%s_%s" % (i, runid) in discriminatory
ExtractRid == IF call.task = "discriminatory" THEN BedTag(bedi) ELSE ""

\* the file the extraction writes: runid + "_lvl.arr" or runid + "_cnt.arr"
ExtractFile ==
    <<ExtractRid, call.runid, IF IsDifferential(call.task) THEN "cnt" ELSE "lvl">>

\* A check that never finds the file.
ExistsNever(f) == FALSE

\* bool(odn.listdir(name))
Exists(f) == fs[f] > 0

\* Results handed back in the order the tasks completed.
ResultsByCompletion(args, done) == [k \in 1..Len(done) |-> args[done[k]]]

\* pool.map_async(fn, args).get(): the result of task k at index k; the
\* result of a task is the data of the file (pair) it was given
MapResults(args, done) == [k \in 1..Len(args) |-> args[k]]

\* the suffix of the scaled matrix the stage reads and writes
ScaledSuffix == IF call.task = "differential" THEN "cnt_deseq_lvl_sca" ELSE "lvl_sca"

Written(f) == [fs EXCEPT ![f] = @ + 1]

Fail(e) ==
    /\ err' = e
    /\ pc' = "failed"

PipeInit ==
    /\ fs = [f \in FileNames |-> 0]
    /\ invs = 0
    /\ call = NoCall
    /\ pc = "idle"
    /\ bedi = 0
    /\ abams = <<>>
    /\ bbams = <<>>
    /\ names = <<>>
    /\ pool = <<>>
    /\ order = <<>>
    /\ columns = <<>>
    /\ dispatched = 0
    /\ nwritten = 0
    /\ err = "none"

\* a task is invoked from the command line
Invoke ==
    /\ pc = "idle"
    /\ invs < MaxInvocations
    /\ invs' = invs + 1
    /\ call' \in Calls
    /\ pc' = IF IsPipeline(call'.task) THEN "rank" ELSE "extract"
    /\ UNCHANGED <<fs, bedi, abams, bbams, names, pool, order, columns,
                   dispatched, nwritten, err>>
    /\ PipeFrame

\* the process ends, by return or by the error; the directory stays
Exit ==
    /\ pc \in {"done", "failed"}
    /\ pc' = "idle"
    /\ call' = NoCall
    /\ bedi' = 0
    /\ abams' = <<>>
    /\ bbams' = <<>>
    /\ names' = <<>>
    /\ pool' = <<>>
    /\ order' = <<>>
    /\ columns' = <<>>
    /\ dispatched' = 0
    /\ nwritten' = 0
    /\ err' = "none"
    /\ UNCHANGED <<fs, invs>>
    /\ PipeFrame

\* chk_exit(c is None, ...) of absolute, differential and discriminatory
CheckRank ==
    /\ pc = "rank"
    /\ IF call.c = "None" THEN Fail("c") ELSE pc' = "extract" /\ UNCHANGED err
    /\ UNCHANGED <<fs, invs, call, bedi, abams, bbams, names, pool, order, columns,
                   dispatched, nwritten>>
    /\ PipeFrame

\* extract_absolute / extract_differential up to the existence check: the
\* lists are sorted (differential), the bed file is parsed, and
\* chk_exit(bool(odn.listdir(...))) ends the run when the output exists
ExtractCheckExists ==
    /\ pc = "extract"
    /\ abams' = IF IsDifferential(call.task) THEN sorted(call.abams) ELSE call.bams
    /\ bbams' = IF IsDifferential(call.task) THEN sorted(call.bbams) ELSE <<>>
    /\ IF Exists(ExtractFile) THEN Fail("exists") ELSE pc' = "names" /\ UNCHANGED err
    /\ UNCHANGED <<fs, invs, call, bedi, names, pool, order, columns, dispatched, nwritten>>
    /\ PipeFrame

\* process_bam_absolute: the basenames, shortened on request
AbsoluteNames(bams, shorten) ==
    LET fx == common_sub(bams)
    IN  IF shorten /\ Len(fx) > 6
        THEN [k \in 1..Len(bams) |-> StrRemove(bams[k], fx)]
        ELSE bams

\* process_bam_differential: the prefixes of the basenames, shortened on
\* request, with ":a" / ":b" appended and interleaved
DifferentialNames(as, bs, shorten) ==
    LET an == [k \in 1..Len(as) |-> BeforeUnderscore(as[k])]
        bn == [k \in 1..Len(bs) |-> BeforeUnderscore(bs[k])]
        fx == common_sub(an \o bn)
        short == shorten /\ Len(fx) > 6
        sa == [k \in 1..Len(an) |-> (IF short THEN StrRemove(an[k], fx) ELSE an[k]) \o <<":", "a">>]
        sb == [k \in 1..Len(bn) |-> (IF short THEN StrRemove(bn[k], fx) ELSE bn[k]) \o <<":", "b">>]
    IN  [k \in 1..(2 * Len(an)) |-> IF k % 2 = 1 THEN sa[(k + 1) \div 2] ELSE sb[k \div 2]]

\* assert (anames == bnames)
PrefixesAgree ==
    [k \in 1..Len(abams) |-> BeforeUnderscore(abams[k])]
        = [k \in 1..Len(bbams) |-> BeforeUnderscore(bbams[k])]

\* process_bam_*: the column names, before any task is started
ProcessNames ==
    /\ pc = "names"
    /\ IF IsDifferential(call.task)
       THEN IF PrefixesAgree
            THEN names' = DifferentialNames(abams, bbams, call.shorten) /\ pc' = "dispatch" /\ UNCHANGED err
            ELSE Fail("prefix") /\ UNCHANGED names
       ELSE names' = AbsoluteNames(abams, call.shorten) /\ pc' = "dispatch" /\ UNCHANGED err
    /\ UNCHANGED <<fs, invs, call, bedi, abams, bbams, pool, order, columns,
                   dispatched, nwritten>>
    /\ PipeFrame

\* args: one task per file (absolute) or per file pair (differential)
TaskArgs ==
    IF IsDifferential(call.task)
    THEN [k \in 1..Len(abams) |-> <<abams[k], bbams[k]>>]
    ELSE [k \in 1..Len(abams) |-> <<abams[k]>>]

\* run_par: pool.map_async(fn, args) hands every task to the pool
Dispatch ==
    /\ pc = "dispatch"
    /\ pool' = [k \in 1..Len(TaskArgs) |-> "running"]
    /\ order' = <<>>
    /\ dispatched' = dispatched + Len(TaskArgs)
    /\ pc' = "pool"
    /\ UNCHANGED <<fs, invs, call, bedi, abams, bbams, names, columns, nwritten, err>>
    /\ PipeFrame

\* a worker finishes one task; the tasks finish in any order
TaskComplete ==
    /\ pc = "pool"
    /\ \E k \in 1..Len(pool) :
          /\ pool[k] = "running"
          /\ pool' = [pool EXCEPT ![k] = "done"]
          /\ order' = Append(order, k)
    /\ UNCHANGED <<fs, invs, call, pc, bedi, abams, bbams, names, columns,
                   dispatched, nwritten, err>>
    /\ PipeFrame

\* the alignment collaborator raises in a worker (unreadable file, missing
\* index): the task ends with the exception instead of a result
TaskFail ==
    /\ pc = "pool"
    /\ \E k \in 1..Len(pool) :
          /\ pool[k] = "running"
          /\ pool' = [pool EXCEPT ![k] = "failed"]
    /\ UNCHANGED <<fs, invs, call, pc, bedi, abams, bbams, names, order, columns,
                   dispatched, nwritten, err>>
    /\ PipeFrame

\* .get() re-raises the exception of a failed task in the orchestrator, the
\* other tasks running or not; nothing catches it up to the command line
SurfaceFailure ==
    /\ pc = "pool"
    /\ \E k \in 1..Len(pool) : pool[k] = "failed"
    /\ Fail("task")
    /\ UNCHANGED <<fs, invs, call, bedi, abams, bbams, names, pool, order, columns,
                   dispatched, nwritten>>
    /\ PipeFrame

\* Every task has ended, with a result or with an exception.
AllReturned(p) == \A k \in 1..Len(p) : p[k] # "running"

\* .get() returns the list of results: every task has ended with a result
AllSucceeded(p) == \A k \in 1..Len(p) : p[k] = "done"

\* the columns of np.column_stack(tmp): chain(*tmp) flattens the (A, B)
\* results of the pairs; each column is named by names
Stack(results) ==
    LET flat == IF IsDifferential(call.task)
                THEN [k \in 1..(2 * Len(results)) |->
                        results[(k + 1) \div 2][IF k % 2 = 1 THEN 1 ELSE 2]]
                ELSE [k \in 1..Len(results) |-> results[k][1]]
    IN  [k \in 1..Len(flat) |-> [name |-> names[k], data |-> flat[k]]]

\* .get() returns when every task is done; the matrix is stacked and the
\* extraction writes its file
CollectAndWrite ==
    /\ pc = "pool"
    /\ AllSucceeded(pool)
    /\ columns' = Stack(MapResults(TaskArgs, order))
    /\ fs' = Written(ExtractFile)
    /\ nwritten' = nwritten + 1
    /\ pc' = IF call.task = "differential" THEN "scale_pairs"
             ELSE IF IsPipeline(call.task) THEN "scale_features"
             ELSE "done"
    /\ UNCHANGED <<invs, call, bedi, abams, bbams, names, pool, order, dispatched, err>>
    /\ PipeFrame

\* scale_pairs: scapair raises ValueError for an unknown method, else the
\* scaled matrix is written
ScalePairs ==
    /\ pc = "scale_pairs"
    /\ IF call.pairsca # "deseq"
       THEN Fail("pairsca") /\ UNCHANGED <<fs, nwritten>>
       ELSE /\ fs' = Written(<<"", call.runid, "cnt_deseq">>)
            /\ nwritten' = nwritten + 1
            /\ pc' = "scale_differential"
            /\ UNCHANGED err
    /\ UNCHANGED <<invs, call, bedi, abams, bbams, names, pool, order, columns, dispatched>>
    /\ PipeFrame

\* scale_differential writes the gain/loss matrix
ScaleDifferential ==
    /\ pc = "scale_differential"
    /\ fs' = Written(<<"", call.runid, "cnt_deseq_lvl">>)
    /\ nwritten' = nwritten + 1
    /\ pc' = "scale_features"
    /\ UNCHANGED <<invs, call, bedi, abams, bbams, names, pool, order, columns,
                   dispatched, err>>
    /\ PipeFrame

\* scale_features: scarr raises ValueError for an unknown method, else the
\* scaled matrix is written; discriminatory then turns to its next bed file
ScaleFeatures ==
    /\ pc = "scale_features"
    /\ IF call.colsca \notin {"sig95", "whiten"}
       THEN Fail("colsca") /\ UNCHANGED <<fs, nwritten, bedi>>
       ELSE /\ fs' = Written(<<ExtractRid, call.runid, ScaledSuffix>>)
            /\ nwritten' = nwritten + 1
            /\ IF call.task = "discriminatory"
               THEN IF bedi + 1 < NBeds
                    THEN bedi' = bedi + 1 /\ pc' = "extract"
                    ELSE pc' = "multi_code" /\ UNCHANGED bedi
               ELSE pc' = "code" /\ UNCHANGED bedi
            /\ UNCHANGED err
    /\ UNCHANGED <<invs, call, abams, bbams, names, pool, order, columns, dispatched>>
    /\ PipeFrame

\* code_sklearn writes the codes and the transformed matrix
CodeSklearn ==
    /\ pc = "code"
    /\ fs' = [fs EXCEPT ![<<"", call.runid, IF call.task = "differential"
                                             THEN "cnt_deseq_lvl_sca_epi"
                                             ELSE "lvl_sca_epi">>] = @ + 1,
                        ![<<"", call.runid, IF call.task = "differential"
                                             THEN "cnt_deseq_lvl_sca_arr"
                                             ELSE "lvl_sca_arr">>] = @ + 1]
    /\ nwritten' = nwritten + 2
    /\ pc' = "done"
    /\ UNCHANGED <<invs, call, bedi, abams, bbams, names, pool, order, columns,
                   dispatched, err>>
    /\ PipeFrame

\* multi_code_sklearn: after parse_params it calls load_arrs, a name that is
\* not defined (its definition is commented out): NameError, before any
\* factorization and before either output file is opened
MultiCodeSklearn ==
    /\ pc = "multi_code"
    /\ Fail("NameError")
    /\ UNCHANGED <<fs, invs, call, bedi, abams, bbams, names, pool, order, columns,
                   dispatched, nwritten>>
    /\ PipeFrame

PipeNext ==
    \/ Invoke
    \/ CheckRank
    \/ ExtractCheckExists
    \/ ProcessNames
    \/ Dispatch
    \/ TaskComplete
    \/ TaskFail
    \/ SurfaceFailure
    \/ CollectAndWrite
    \/ ScalePairs
    \/ ScaleDifferential
    \/ ScaleFeatures
    \/ CodeSklearn
    \/ MultiCodeSklearn
    \/ Exit

(***************************************************************************)
(* The matrix file: a header line of tab-separated column names and one    *)
(* line of tab-separated numbers per row, written by every stage and read  *)
(* by the next                                                             *)
(***************************************************************************)

MaxRowsIO == 2

\* two files of which one basename is the beginning of the other
NestedFiles == { <<"s", "a", "m", "p", "l", "e", "A">>,
                 <<"s", "a", "m", "p", "l", "e", "A", "_", "2">> }

\* the sorted A and B lists that pass the assertion of process_bam_differential
MatchedLists ==
    { ab \in {sorted(x) : x \in FileLists(AFiles)} \X {sorted(x) : x \in FileLists(BFiles)} :
        /\ Len(ab[1]) = Len(ab[2])
        /\ \A k \in 1..Len(ab[1]) : BeforeUnderscore(ab[1][k]) = BeforeUnderscore(ab[2][k]) }

\* the name lists the extraction stages produce
ProducedNames ==
    { AbsoluteNames(b, sh) : b \in FileLists(AbsFiles \cup NestedFiles), sh \in BOOLEAN }
    \cup { DifferentialNames(ab[1], ab[2], sh) : ab \in MatchedLists, sh \in BOOLEAN }

Whitespace == {" ", "\t", "\n", "\r"}

RECURSIVE Join(_)
\* "\t".join(ns)
Join(ns) ==
    IF ns = <<>> THEN <<>>
    ELSE IF Len(ns) = 1 THEN ns[1]
    ELSE ns[1] \o <<"\t">> \o Join(Tail(ns))

RECURSIVE LStrip(_)
LStrip(x) == IF x # <<>> /\ Head(x) \in Whitespace THEN LStrip(Tail(x)) ELSE x

RECURSIVE RStrip(_)
RStrip(x) ==
    IF x # <<>> /\ x[Len(x)] \in Whitespace THEN RStrip(SubSeq(x, 1, Len(x) - 1)) ELSE x

\* x.strip()
Strip(x) == RStrip(LStrip(x))

RECURSIVE Split(_)
\* x.split("\t")
Split(x) ==
    IF \A k \in 1..Len(x) : x[k] # "\t" THEN <<x>>
    ELSE LET k == CHOOSE k \in 1..Len(x) : x[k] = "\t" /\ \A m \in 1..(k - 1) : x[m] # "\t"
         IN  <<SubSeq(x, 1, k - 1)>> \o Split(SubSeq(x, k + 1, Len(x)))

\* np.savetxt of an array of the shape: one line per row (per element of a
\* one-dimensional array)
SavedLines(shape) == IF Len(shape) = 2 THEN shape ELSE <<shape[1], 1>>

\* np.loadtxt: the array of the lines, with the dimensions of length 1
\* squeezed away
LoadShape(b) == SelectSeq(b, LAMBDA n : n # 1)

IOInit ==
    /\ wnames \in ProducedNames
    /\ wshape \in {<<r, Len(wnames)>> : r \in 1..MaxRowsIO}
    /\ header = <<>>
    /\ body = <<>>
    /\ rnames = <<>>
    /\ rshape = <<>>
    /\ iopc = "write"

\* wh.write("\t".join(names) + "\n"); np.savetxt(wh, counts, delimiter="\t")
IOWrite ==
    /\ iopc = "write"
    /\ header' = Join(wnames) \o <<"\n">>
    /\ body' = SavedLines(wshape)
    /\ iopc' = "read"
    /\ UNCHANGED <<wnames, wshape, rnames, rshape>>
    /\ IOFrame

\* names = fh.readline().strip().split("\t"); raw = np.loadtxt(fh, delimiter="\t")
IORead ==
    /\ iopc = "read"
    /\ rnames' = Split(Strip(header))
    /\ rshape' = LoadShape(body)
    /\ iopc' = "done"
    /\ UNCHANGED <<wnames, wshape, header, body>>
    /\ IOFrame

IONext ==
    \/ IOWrite
    \/ IORead

(***************************************************************************)
(* scarr: the sigmoid and the whitening scaling of the columns             *)
(*                                                                         *)
(* Input values are integers counting tenths, so 1 is 0.1 and 10 is 1.0.   *)
(* A scaled entry is <<tag, x, p, q>>:                                     *)
(*   "raw"    the value x as given                                         *)
(*   "nan"    not-a-number                                                 *)
(*   "zero" / "pos" / "neg"   the sigmoid result 2/(1 + exp(p/q)) - 1, by  *)
(*            its sign: exactly 0, in (0, 1], in [-1, 0)                   *)
(*   "huge"   x divided by a deviation of rounding-error size              *)
(*   "over"   x divided by the square root of p/q                          *)
(***************************************************************************)

MaxRowsSca == 3

\* the rows of the two-column input matrices
ScaPairs == { <<1, 0>>, <<1, 10>>, <<1, 20>>, <<10, 10>>, <<0, 1>> }

ScaInputs == UNION { [1..n -> ScaPairs] : n \in 1..MaxRowsSca }

ScaMethods == {"sig50", "sig95", "whiten", "zscore"}

\* method.startswith("sig")
IsSig(m) == m \in {"sig50", "sig95"}

\* float(method.split("sig")[1]), the percentage
HiOf(m) == IF m = "sig50" THEN 50 ELSE 95

Entry(tag, x, pp, qq) == <<tag, x, pp, qq>>
ENaN == Entry("nan", 0, 0, 0)

\* np.array(arr, dtype=float).T
Transposed(arr) ==
    [c \in 1..2 |-> [r \in 1..Len(arr) |-> Entry("raw", arr[r][c], 0, 0)]]

\* the values of a column of data
ColVals(col) == [r \in 1..Len(col) |-> col[r][2]]

\* the column in ascending order
SortedVals(xs) ==
    [k \in 1..Len(xs) |->
        CHOOSE v \in Range(xs) :
            /\ Cardinality({r \in 1..Len(xs) : xs[r] < v}) < k
            /\ k <= Cardinality({r \in 1..Len(xs) : xs[r] <= v})]

Clip(x, lo, hi) == IF (IF x > lo THEN x ELSE lo) < hi THEN (IF x > lo THEN x ELSE lo) ELSE hi

\* quantile positions are kept in units of 1/QScale
QScale == 5 * 100

\* mquantiles(xs, P/100) with alphap = betap = 0.4, times QScale:
\* aleph = n*p + 0.4 + 0.2*p, k = floor(clip(aleph, 1, n-1)),
\* gamma = clip(aleph - k, 0, 1), (1 - gamma)*x[k-1] + gamma*x[k]
MQuantile(xs, P) ==
    LET n == Len(xs)
        x == SortedVals(xs)
        aleph == 5 * n * P + 200 + P
        k == Clip(aleph, QScale, (n - 1) * QScale) \div QScale
        gamma == Clip(aleph - k * QScale, 0, QScale)
        below == IF k = 0 THEN x[n] ELSE x[k]
        above == x[k + 1]
    IN  (QScale - gamma) * below + gamma * above

\* A half-width test that lets every division happen.
HalfWidthAny(alpha) == TRUE

\* "if alpha_l:" / "if alpha_r:": the division is done for a non-zero half-width
HalfWidthNonZero(alpha) == alpha # 0

\* 1/(1 + exp(t)) for t = num/den, then (f - 0.5) * 2, by sign; num/0 is
\* an infinity of the sign of num, and 0/0 is not-a-number
SigEntry(x, num, den) ==
    LET sgn == IF den = 0 THEN num ELSE num * den
    IN  IF num = 0 /\ den = 0 THEN ENaN
        ELSE IF sgn = 0 THEN Entry("zero", x, num, den)
        ELSE IF sgn > 0 THEN Entry("neg", x, num, den)
        ELSE Entry("pos", x, num, den)

\* (dsig(row, lq, loc, uq) - 0.5) * 2 for one value x of the row; lq, loc
\* and uq are in units of 1/QScale
dsig(x, lq, loc, uq) ==
    LET alpha_l == loc - lq
        alpha_r == uq - loc
        a == QScale * x - loc
        alpha == IF a < 0 THEN alpha_l ELSE alpha_r
    IN  IF HalfWidthNonZero(alpha)
        THEN SigEntry(x, (-2) * a, alpha)
        ELSE SigEntry(x, a, QScale)

\* the means of n equal values v that double-precision summation does not
\* give back as v: v not a binary fraction and n one of these counts
InexactMeanCounts == {3, 6}
BinaryFraction(v) == v % 5 = 0

IsConstant(xs) == \A r \in 1..Len(xs) : xs[r] = xs[1]

Sum(xs) == LET RECURSIVE S(_)
               S(k) == IF k = 0 THEN 0 ELSE xs[k] + S(k - 1)
           IN  S(Len(xs))

\* n * (n - 1) * 100 times the sample variance (ddof = 1) of the column, and
\* that factor
VarNum(xs) == Len(xs) * Sum([r \in 1..Len(xs) |-> xs[r] * xs[r]]) - Sum(xs) * Sum(xs)
VarDen(xs) == Len(xs) * (Len(xs) - 1) * 100

\* np.std(column, ddof=1): "nan" for a single row (0/0), "zero", "tiny"
\* when the rounded mean of equal values is not the value, "one", or "sqrt"
StdClass(xs) ==
    IF Len(xs) = 1 THEN "nan"
    ELSE IF IsConstant(xs)
         THEN IF BinaryFraction(xs[1]) \/ Len(xs) \notin InexactMeanCounts
              THEN "zero" ELSE "tiny"
    ELSE IF VarNum(xs) = VarDen(xs) /\ \A r \in 1..Len(xs) : BinaryFraction(xs[r])
         THEN "one" ELSE "sqrt"

\* dev[dev == 0.] = np.nan; data /= dev, for one column
Whitened(col) ==
    LET xs == ColVals(col)
        dev == StdClass(xs)
    IN  [r \in 1..Len(col) |->
            IF dev \in {"zero", "nan"} THEN ENaN
            ELSE IF dev = "one" THEN Entry("raw", xs[r], 0, 0)
            ELSE IF dev = "tiny"
                 THEN (IF xs[r] = 0 THEN Entry("raw", 0, 0, 0) ELSE Entry("huge", xs[r], 0, 0))
            ELSE Entry("over", xs[r], VarNum(xs), VarDen(xs))]

ScaInit ==
    /\ sarr \in ScaInputs
    /\ smethod \in ScaMethods
    /\ sdata = <<>>
    /\ srow = 0
    /\ scpc = "start"

\* hi = ...; data = np.array(arr, dtype=float).T; qs = mquantiles(...)
ScarrSigStart ==
    /\ scpc = "start"
    /\ IsSig(smethod)
    /\ sdata' = Transposed(sarr)
    /\ srow' = 0
    /\ scpc' = "rows"
    /\ UNCHANGED <<sarr, smethod>>
    /\ ScaFrame

\* row[:] = (dsig(row, lq, mu, uq) - 0.5) * 2. with lq, mu, uq the quantiles
\* (0.0, 0.0, hi) of the column
ScarrSigRow ==
    /\ scpc = "rows"
    /\ srow < Len(sdata)
    /\ LET xs == ColVals(sdata[srow + 1])
           lq == MQuantile(xs, 0)
           mu == MQuantile(xs, 0)
           uq == MQuantile(xs, HiOf(smethod))
       IN  sdata' = [sdata EXCEPT ![srow + 1] =
                        [r \in 1..Len(xs) |-> dsig(xs[r], lq, mu, uq)]]
    /\ srow' = srow + 1
    /\ UNCHANGED <<sarr, smethod, scpc>>
    /\ ScaFrame

\* elif method == "whiten": ... data /= dev
ScarrWhiten ==
    /\ scpc = "start"
    /\ smethod = "whiten"
    /\ sdata' = [c \in 1..2 |-> Whitened(Transposed(sarr)[c])]
    /\ scpc' = "return"
    /\ UNCHANGED <<sarr, smethod, srow>>
    /\ ScaFrame

\* else: raise ValueError("unknown method")
ScarrUnknown ==
    /\ scpc = "start"
    /\ ~IsSig(smethod)
    /\ smethod # "whiten"
    /\ scpc' = "ValueError"
    /\ UNCHANGED <<sarr, smethod, sdata, srow>>
    /\ ScaFrame

\* return data.T
ScarrReturn ==
    /\ \/ scpc = "rows" /\ srow >= Len(sdata)
       \/ scpc = "return"
    /\ scpc' = "done"
    /\ UNCHANGED <<sarr, smethod, sdata, srow>>
    /\ ScaFrame

ScaNext ==
    \/ ScarrSigStart
    \/ ScarrSigRow
    \/ ScarrWhiten
    \/ ScarrUnknown
    \/ ScarrReturn

(***************************************************************************)
(* scale_differential: the gain/loss column names                          *)
(***************************************************************************)

MaxMarkLen == 3

MarkChars == {"m", ":", "a", "b"}

\* the mark names of up to MaxMarkLen characters
MarkNames == UNION { [1..n -> MarkChars] : n \in 0..MaxMarkLen }

\* the column names of the input file: a mark name and ":a" or ":b"
InputNames == { m \o sfx : m \in MarkNames, sfx \in {<<":", "a">>, <<":", "b">>} }

\* n[::-1]
Reverse(x) == [k \in 1..Len(x) |-> x[Len(x) + 1 - k]]

\* x.replace(old, new, 1): the leftmost occurrence replaced
RECURSIVE ReplaceFirst(_, _, _)
ReplaceFirst(x, old, new) ==
    IF Len(x) < Len(old) THEN x
    ELSE IF SubSeq(x, 1, Len(old)) = old
         THEN new \o SubSeq(x, Len(old) + 1, Len(x))
    ELSE <<Head(x)>> \o ReplaceFirst(Tail(x), old, new)

\* n[::-1].replace("a:", "g:", 1).replace("b:", "l:", 1)[::-1]
GainLossName(n) ==
    Reverse(ReplaceFirst(ReplaceFirst(Reverse(n), <<"a", ":">>, <<"g", ":">>),
                         <<"b", ":">>, <<"l", ":">>))

NameInit ==
    /\ gname \in InputNames
    /\ glname = <<>>
    /\ gnpc = "start"

\* glnames = [... for n in names], for one name
NameConvert ==
    /\ gnpc = "start"
    /\ glname' = GainLossName(gname)
    /\ gnpc' = "done"
    /\ UNCHANGED gname
    /\ NameFrame

NameNext == NameConvert

(***************************************************************************)
(* The column names of process_bam_absolute and process_bam_differential   *)
(***************************************************************************)

\* basenames with a common part of 7 characters (".sorted", twice in one
\* of them) and of 6 characters ("_dedup")
ShortAbsPool == { <<"k", "4", ".", "s", "o", "r", "t", "e", "d">>,
                  <<"k", "9", ".", "s", "o", "r", "t", "e", "d">>,
                  <<"k", "4", "_", "d", "e", "d", "u", "p">>,
                  <<"k", "9", "_", "d", "e", "d", "u", "p">>,
                  <<".", "s", "o", "r", "t", "e", "d", ".", "k", "2", "7", ".", "s", "o", "r", "t", "e", "d">> }

\* basenames of paired files: the prefixes before "_" share 8 characters
\* ("histoneK") or 6 ("h3k4me")
ShortAPool == AFiles \cup { <<"h", "3", "k", "4", "m", "e", "3", "_", "c", "t", "l">>,
                            <<"h", "3", "k", "4", "m", "e", "1", "_", "c", "t", "l">> }
ShortBPool == BFiles \cup { <<"h", "3", "k", "4", "m", "e", "3", "_", "t", "r", "t">>,
                            <<"h", "3", "k", "4", "m", "e", "1", "_", "t", "r", "t">> }

\* assert (anames == bnames)
ShortPrefixesAgree ==
    [k \in 1..Len(sbams) |-> BeforeUnderscore(sbams[k])]
        = [k \in 1..Len(sbbams) |-> BeforeUnderscore(sbbams[k])]

ShortInit ==
    /\ smode \in {"absolute", "differential"}
    /\ sshorten \in BOOLEAN
    /\ sbams \in IF smode = "absolute" THEN FileLists(ShortAbsPool) ELSE FileLists(ShortAPool)
    /\ sbbams \in IF smode = "absolute" THEN {<<>>} ELSE FileLists(ShortBPool)
    /\ snames = <<>>
    /\ spc = "start"

\* process_bam_absolute up to the names
ShortAbsolute ==
    /\ spc = "start"
    /\ smode = "absolute"
    /\ snames' = AbsoluteNames(sbams, sshorten)
    /\ spc' = "done"
    /\ UNCHANGED <<sbams, sbbams, smode, sshorten>>
    /\ ShortFrame

\* process_bam_differential up to the names
ShortDifferential ==
    /\ spc = "start"
    /\ smode = "differential"
    /\ ShortPrefixesAgree
    /\ snames' = DifferentialNames(sbams, sbbams, sshorten)
    /\ spc' = "done"
    /\ UNCHANGED <<sbams, sbbams, smode, sshorten>>
    /\ ShortFrame

\* process_bam_differential when the assertion fails
ShortAssertFails ==
    /\ spc = "start"
    /\ smode = "differential"
    /\ ~ShortPrefixesAgree
    /\ spc' = "AssertionError"
    /\ UNCHANGED <<sbams, sbbams, smode, sshorten, snames>>
    /\ ShortFrame

ShortNext ==
    \/ ShortAbsolute
    \/ ShortDifferential
    \/ ShortAssertFails

(***************************************************************************)
(* Two concurrent invocations of one extraction (lines 236-242, 339-345)   *)
(***************************************************************************)

MaxRaceRows == 2

\* the two invocations; they share runid and output directory, hence the
\* output file
Procs == {"p1", "p2"}

\* the lines an invocation writes: the header and the rows of np.savetxt
LinesOf == 1 + rrows

\* a write of one line by p at line offset off of the shared file: each
\* handle has its own offset; a write past the end leaves a hole
WriteAt(f, off, p) ==
    [k \in 1..(IF Len(f) > off + 1 THEN Len(f) ELSE off + 1) |->
        IF k = off + 1 THEN p ELSE IF k <= Len(f) THEN f[k] ELSE "hole"]

RaceInit ==
    /\ rmode \in {"absolute", "differential"}
    /\ rrows \in 1..MaxRaceRows
    /\ rexists \in BOOLEAN
    /\ rfile = IF rexists THEN <<"old", "old">> ELSE <<>>
    /\ rpc = [p \in Procs |-> "check"]
    /\ roff = [p \in Procs |-> 0]

\* chk_exit(bool(odn.listdir("%s_lvl.arr" % runid)), ...)
RaceCheckExists ==
    \E p \in Procs :
        /\ rpc[p] = "check"
        /\ rpc' = [rpc EXCEPT ![p] = IF rexists THEN "exists" ELSE "extract"]
        /\ UNCHANGED <<rmode, rrows, rexists, rfile, roff>>
        /\ RaceFrame

\* names, counts = process_bam_*(...): the counting, done by the pool
RaceProcessBams ==
    \E p \in Procs :
        /\ rpc[p] = "extract"
        /\ rpc' = [rpc EXCEPT ![p] = "open"]
        /\ UNCHANGED <<rmode, rrows, rexists, rfile, roff>>
        /\ RaceFrame

\* open(fn, "wb"): the file is created, or truncated if it exists
RaceOpen ==
    \E p \in Procs :
        /\ rpc[p] = "open"
        /\ rexists' = TRUE
        /\ rfile' = <<>>
        /\ rpc' = [rpc EXCEPT ![p] = "write"]
        /\ UNCHANGED <<rmode, rrows, roff>>
        /\ RaceFrame

\* wh.write(header) and the rows of np.savetxt(wh, counts), a line at a time
RaceWriteLine ==
    \E p \in Procs :
        /\ rpc[p] = "write"
        /\ roff[p] < LinesOf
        /\ rfile' = WriteAt(rfile, roff[p], p)
        /\ roff' = [roff EXCEPT ![p] = @ + 1]
        /\ UNCHANGED <<rmode, rrows, rexists, rpc>>
        /\ RaceFrame

\* the with block ends; return fn
RaceClose ==
    \E p \in Procs :
        /\ rpc[p] = "write"
        /\ roff[p] = LinesOf
        /\ rpc' = [rpc EXCEPT ![p] = "done"]
        /\ UNCHANGED <<rmode, rrows, rexists, rfile, roff>>
        /\ RaceFrame

RaceNext ==
    \/ RaceCheckExists
    \/ RaceProcessBams
    \/ RaceOpen
    \/ RaceWriteLine
    \/ RaceClose

(***************************************************************************)
(* parse_bed                                                               *)
(***************************************************************************)

MaxBedCoord == 2
MaxBedLines == 2

\* the lines of a BED file, after the split and int() of columns 1 and 2
BedLines == {"chr1"} \X (-1..MaxBedCoord) \X (0..MaxBedCoord)

BedFiles == UNION { [1..n -> BedLines] : n \in 0..MaxBedLines }

\* if fields[1] < 0: continue
SkipsLine(fields) == fields[2] < 0

BedInit ==
    /\ blines \in BedFiles
    /\ bline = 0
    /\ regions = <<>>
    /\ bpc = "lines"

\* one pass of "for line in fh" that ends in continue
BedSkipLine ==
    /\ bpc = "lines"
    /\ bline < Len(blines)
    /\ SkipsLine(blines[bline + 1])
    /\ bline' = bline + 1
    /\ UNCHANGED <<blines, regions, bpc>>
    /\ BedFrame

\* one pass that ends in regions.append(bed6)
BedKeepLine ==
    /\ bpc = "lines"
    /\ bline < Len(blines)
    /\ ~SkipsLine(blines[bline + 1])
    /\ regions' = Append(regions, blines[bline + 1])
    /\ bline' = bline + 1
    /\ UNCHANGED <<blines, bpc>>
    /\ BedFrame

\* return regions
BedReturn ==
    /\ bpc = "lines"
    /\ bline = Len(blines)
    /\ bpc' = "done"
    /\ UNCHANGED <<blines, bline, regions>>
    /\ BedFrame

BedNext ==
    \/ BedSkipLine
    \/ BedKeepLine
    \/ BedReturn

(***************************************************************************)
(* The components at rest                                                  *)
(***************************************************************************)

GLIdle == scaled = <<>> /\ i = 0 /\ j = 0 /\ gl = <<>> /\ glpc = "idle"

DiffIdle ==
    /\ dregs = <<>> /\ step = 1 /\ acount = <<>> /\ bcount = <<>> /\ dreg = 0
    /\ s = 0 /\ oldchr = "chr1" /\ dqueries = <<>> /\ dpc = "idle"

AbsIdle ==
    /\ aregs = <<>> /\ afn = "a.bam" /\ count = <<>> /\ areg = 0
    /\ aqueries = <<>> /\ apc = "idle"

PairIdle == raw = <<>> /\ method = "deseq" /\ pscaled = <<>> /\ col1 = 0 /\ ppc = "idle"

IOIdle ==
    /\ wnames = <<>> /\ wshape = <<>> /\ header = <<>> /\ body = <<>>
    /\ rnames = <<>> /\ rshape = <<>> /\ iopc = "idle"

ScaIdle == sarr = <<>> /\ smethod = "none" /\ sdata = <<>> /\ srow = 0 /\ scpc = "idle"

NameIdle == gname = <<>> /\ glname = <<>> /\ gnpc = "idle"

BedIdle == blines = <<>> /\ bline = 0 /\ regions = <<>> /\ bpc = "idle"

ShortIdle ==
    /\ sbams = <<>> /\ sbbams = <<>> /\ smode = "idle" /\ sshorten = FALSE
    /\ snames = <<>> /\ spc = "idle"

RaceIdle ==
    /\ rmode = "idle" /\ rrows = 0 /\ rexists = FALSE /\ rfile = <<>>
    /\ rpc = [p \in Procs |-> "idle"] /\ roff = [p \in Procs |-> 0]

PipeIdle ==
    /\ fs = <<>> /\ invs = 0 /\ call = NoCall /\ pc = "off" /\ bedi = 0
    /\ abams = <<>> /\ bbams = <<>> /\ names = <<>> /\ pool = <<>> /\ order = <<>>
    /\ columns = <<>> /\ dispatched = 0 /\ nwritten = 0 /\ err = "none"

(***************************************************************************)
(* Specifications                                                          *)
(***************************************************************************)

InitGL == GLInit /\ DiffIdle /\ AbsIdle /\ PairIdle /\ PipeIdle /\ IOIdle /\ ScaIdle /\ NameIdle /\ BedIdle /\ ShortIdle /\ RaceIdle
SpecGL == InitGL /\ [][GLNext]_vars

InitDiff == DiffInit /\ GLIdle /\ AbsIdle /\ PairIdle /\ PipeIdle /\ IOIdle /\ ScaIdle /\ NameIdle /\ BedIdle /\ ShortIdle /\ RaceIdle
SpecDiff == InitDiff /\ [][DiffNext]_vars

InitAbs == AbsInit /\ GLIdle /\ DiffIdle /\ PairIdle /\ PipeIdle /\ IOIdle /\ ScaIdle /\ NameIdle /\ BedIdle /\ ShortIdle /\ RaceIdle
SpecAbs == InitAbs /\ [][AbsNext]_vars

InitPair == PairInit /\ GLIdle /\ DiffIdle /\ AbsIdle /\ PipeIdle /\ IOIdle /\ ScaIdle /\ NameIdle /\ BedIdle /\ ShortIdle /\ RaceIdle
SpecPair == InitPair /\ [][PairNext]_vars

Init == PipeInit /\ GLIdle /\ DiffIdle /\ AbsIdle /\ PairIdle /\ IOIdle /\ ScaIdle /\ NameIdle /\ BedIdle /\ ShortIdle /\ RaceIdle
Next == PipeNext
Spec == Init /\ [][Next]_vars

InitSca == ScaInit /\ GLIdle /\ DiffIdle /\ AbsIdle /\ PairIdle /\ PipeIdle /\ IOIdle /\ NameIdle /\ BedIdle /\ ShortIdle /\ RaceIdle
SpecSca == InitSca /\ [][ScaNext]_vars

InitName ==
    NameInit /\ GLIdle /\ DiffIdle /\ AbsIdle /\ PairIdle /\ PipeIdle /\ IOIdle /\ ScaIdle
    /\ BedIdle /\ ShortIdle /\ RaceIdle
SpecName == InitName /\ [][NameNext]_vars

InitBed ==
    BedInit /\ GLIdle /\ DiffIdle /\ AbsIdle /\ PairIdle /\ PipeIdle /\ IOIdle /\ ScaIdle
    /\ NameIdle /\ ShortIdle /\ RaceIdle
SpecBed == InitBed /\ [][BedNext]_vars

InitShort ==
    ShortInit /\ GLIdle /\ DiffIdle /\ AbsIdle /\ PairIdle /\ PipeIdle /\ IOIdle /\ ScaIdle
    /\ NameIdle /\ BedIdle /\ RaceIdle
SpecShort == InitShort /\ [][ShortNext]_vars

InitRace ==
    RaceInit /\ GLIdle /\ DiffIdle /\ AbsIdle /\ PairIdle /\ PipeIdle /\ IOIdle /\ ScaIdle
    /\ NameIdle /\ BedIdle /\ ShortIdle
SpecRace == InitRace /\ [][RaceNext]_vars

InitIO == IOInit /\ GLIdle /\ DiffIdle /\ AbsIdle /\ PairIdle /\ PipeIdle /\ ScaIdle /\ NameIdle /\ BedIdle /\ ShortIdle /\ RaceIdle
SpecIO == InitIO /\ [][IONext]_vars

(***************************************************************************)
(* Properties of scale_differential                                        *)
(***************************************************************************)

\* The input read as the spec reads it: row r is a missing-value row when
\* some delta of it is not a number; the n-th region block is the rows
\* after the (n-1)-th missing-value row up to the n-th one.
IsMissingRow(r) == AnyNaN(dcols(r))
MissingUpTo(r) == Cardinality({q \in 1..r : IsMissingRow(q)})
NthMissing(n) == CHOOSE r \in 1..NRows : IsMissingRow(r) /\ MissingUpTo(r) = n
BlockFirst(n) == IF n = 1 THEN 1 ELSE NthMissing(n - 1) + 1
\* the number k of window rows of block n
BlockWindows(n) == NthMissing(n) - BlockFirst(n)

RECURSIVE PosSum(_, _, _)
\* sum of the positive deltas of column c over rows first .. first+k-1
PosSum(first, k, c) ==
    IF k = 0 THEN 0
    ELSE (IF dcols(first)[c][1] > 0 THEN dcols(first)[c][1] ELSE 0) + PosSum(first + 1, k - 1, c)

RECURSIVE NegSum(_, _, _)
\* sum of the absolute values of the negative deltas of column c
NegSum(first, k, c) ==
    IF k = 0 THEN 0
    ELSE (IF dcols(first)[c][1] < 0 THEN 0 - dcols(first)[c][1] ELSE 0) + NegSum(first + 1, k - 1, c)

\* every row of gl is complete (divided) in these positions
GLRowsComplete == glpc \in {"outer", "done"}

\* C1: for every region block with k >= 1 window rows before its
\* missing-value row, gain = (sum of the positive deltas) / k and
\* loss = (sum of the absolute negative deltas) / k.
C1_GainLossDividedByWindows ==
    GLRowsComplete =>
        \A n \in 1..Len(gl[1]) : \A c \in 1..NMarks :
            BlockWindows(n) >= 1 =>
                /\ FEq(gl[GainCol(c)][n], <<PosSum(BlockFirst(n), BlockWindows(n), c), BlockWindows(n)>>)
                /\ FEq(gl[LossCol(c)][n], <<NegSum(BlockFirst(n), BlockWindows(n), c), BlockWindows(n)>>)

\* What the code computes instead: the sums divided by k + 1, the rows
\* read in the block including the missing-value row that ends it.
GainLossDividedByRowsRead ==
    GLRowsComplete =>
        \A n \in 1..Len(gl[1]) : \A c \in 1..NMarks :
            /\ FEq(gl[GainCol(c)][n], <<PosSum(BlockFirst(n), BlockWindows(n), c), BlockWindows(n) + 1>>)
            /\ FEq(gl[LossCol(c)][n], <<NegSum(BlockFirst(n), BlockWindows(n), c), BlockWindows(n) + 1>>)

CeilDiv(a, b) == (a + b - 1) \div b

\* ceil((end - start) / step) of region r
WindowsOf(r) == CeilDiv(dregs[r][3] - dregs[r][2], step)

RECURSIVE SentinelPos(_)
\* the position in acount / bcount of the sentinel of region r, when every
\* region before it gave its windows and one sentinel
SentinelPos(r) == IF r = 0 THEN 0 ELSE SentinelPos(r - 1) + WindowsOf(r) + 1

\* C2: for every region in input order parse_bam_differential emits exactly
\* ceil((end-start)/step) window rows, then exactly one sentinel row holding
\* -1 in the A and in the B sequence; the two sequences have equal length
\* and their sentinels at the same positions.
C2_WindowsThenSentinel ==
    /\ Len(acount) = Len(bcount)
    /\ \A p \in 1..Len(acount) : (acount[p] = -1) <=> (bcount[p] = -1)
    /\ dpc \in {"regs", "done"} =>
          /\ Len(acount) = SentinelPos(dreg)
          /\ \A p \in 1..Len(acount) :
                (acount[p] = -1) <=> (\E r \in 1..dreg : p = SentinelPos(r))
          /\ \A r \in 1..dreg : \A w \in 1..WindowsOf(r) :
                LET st == dregs[r][2] + (w - 1) * step
                    p == SentinelPos(r - 1) + w
                IN  /\ acount[p] = BamCount("a.bam", dregs[r][1], st, st + step)
                    /\ bcount[p] = BamCount("b.bam", dregs[r][1], st, st + step)
    /\ dpc = "done" => dreg = Len(dregs)

\* two regions were parsed, the first with a partial last window
C2_Witness ==
    /\ dpc = "done"
    /\ Len(dregs) = 2
    /\ (dregs[1][3] - dregs[1][2]) % step # 0
    /\ WindowsOf(1) >= 2
    /\ Len(acount) = WindowsOf(1) + WindowsOf(2) + 2

(***************************************************************************)
(* Properties of parse_bam_absolute                                        *)
(***************************************************************************)

\* C10: parse_bam_absolute returns, for every region with start < end and in
\* region order, the collaborator's read count for (chromosome, start, end)
\* divided by (end - start); a read count of 0 yields 0 and never an error
\* (the only error is the division for a region with start = end).
C10_LengthNormalizedCounts ==
    /\ Len(count) <= Len(aregs)
    /\ \A r \in 1..Len(count) :
          LET n == BamCount(afn, aregs[r][1], aregs[r][2], aregs[r][3])
          IN  /\ aregs[r][2] < aregs[r][3]
              /\ aqueries[r] = <<aregs[r][1], aregs[r][2], aregs[r][3]>>
              /\ FEq(count[r], <<n, aregs[r][3] - aregs[r][2]>>)
              /\ n = 0 => FZero(count[r])
    /\ apc = "done" => Len(count) = Len(aregs)
    /\ apc = "ZeroDivisionError" => aregs[areg][2] = aregs[areg][3]
    /\ (\A r \in 1..Len(aregs) : aregs[r][2] < aregs[r][3]) => apc # "ZeroDivisionError"

\* two regions of different lengths were counted, one with no read in it
C10_Witness ==
    /\ apc = "done"
    /\ Len(count) = 2
    /\ FZero(count[1])
    /\ FPos(count[2])
    /\ aregs[2][3] - aregs[2][2] >= 2
    /\ aregs[1][3] - aregs[1][2] = 1

(***************************************************************************)
(* Properties of scapair                                                   *)
(***************************************************************************)

\* the first columns (1-based) of the pairs
PairCols == {2 * m - 1 : m \in 1..NMarks}

AllRows == 1..Len(raw)

\* C6: if no row qualifies for the size factors of some pair, the call ends
\* in an error: it never returns a scaled matrix.
C6_NoQualifyingRowIsError ==
    ppc = "done" => \A c \in PairCols : NonZeroRows(raw, sel, c) # {}

\* What the code does instead: it returns, with not-a-number in that pair's
\* columns of every row that has no sentinel.
NoQualifyingRowGivesNaN ==
    ppc = "done" =>
        \A c \in PairCols : NonZeroRows(raw, sel, c) = {} =>
            \A r \in sel : pscaled[r][c] = PNaN /\ pscaled[r][c + 1] = PNaN

\* C7: every row of raw with a sentinel in any column is returned entirely
\* as not-a-number, and every row with no sentinel has each pair's two
\* columns divided by that pair's size factors.
C7_SentinelRowsAllNaN ==
    ppc = "done" =>
        \A r \in AllRows :
            /\ r \notin sel => \A c \in 1..(2 * NMarks) : pscaled[r][c] = PNaN
            /\ r \in sel => \A c \in PairCols :
                  /\ pscaled[r][c] = DivVal(raw[r][c], size_factors(raw, sel, c)[1])
                  /\ pscaled[r][c + 1] = DivVal(raw[r][c + 1], size_factors(raw, sel, c)[2])

\* What the code does instead in a row with a sentinel: only the entries
\* that are the sentinel become not-a-number, the others keep the raw count.
SentinelEntriesNaNOthersRaw ==
    ppc = "done" =>
        \A r \in AllRows : r \notin sel =>
            \A c \in 1..(2 * NMarks) :
                pscaled[r][c] = (IF raw[r][c] = PSentinel THEN PNaN ELSE raw[r][c])

NoZeroNoSentinel ==
    \A r \in AllRows : \A c \in 1..(2 * NMarks) : raw[r][c] \notin {PZero, PSentinel}

\* C8: for a count matrix with no zero and no sentinel entry, the size
\* factors recomputed on the scaled matrix are 1 (2^0) for every column.
C8_DepthCorrectionIdempotent ==
    (ppc = "done" /\ NoZeroNoSentinel) =>
        \A c \in PairCols : size_factors(pscaled, AllRows, c) = <<Pow(0), Pow(0)>>

\* a matrix of several rows whose first size factors were not 1 was scaled
C8_Witness ==
    /\ ppc = "done"
    /\ NoZeroNoSentinel
    /\ Len(raw) >= 2
    /\ \A c \in PairCols : size_factors(raw, AllRows, c)[1] # Pow(0)
    /\ \E r \in AllRows : raw[r] # raw[1]

(***************************************************************************)
(* Properties of the pipelines and the extraction                          *)
(***************************************************************************)

\* the extraction of the running invocation has written its matrix
Extracted == columns # <<>>

\* the columns an extraction of the lists as, bs (bs empty in absolute mode)
\* has when column k holds the data of the k-th file (pair) of the lists
ColumnsOf(as, bs) ==
    IF IsDifferential(call.task)
    THEN LET nm == DifferentialNames(as, bs, call.shorten)
         IN  [k \in 1..(2 * Len(as)) |->
                [name |-> nm[k],
                 data |-> IF k % 2 = 1 THEN as[(k + 1) \div 2] ELSE bs[k \div 2]]]
    ELSE LET nm == AbsoluteNames(as, call.shorten)
         IN  [k \in 1..Len(as) |-> [name |-> nm[k], data |-> as[k]]]

\* C3 as stated: in absolute and in differential extraction the columns of
\* the written matrix and their names follow the order in which the caller
\* gave the files / file pairs, whatever the order in which the pool's tasks
\* completed.
C3_ColumnsInCallerOrder ==
    Extracted =>
        columns = IF IsDifferential(call.task)
                  THEN ColumnsOf(call.abams, call.bbams)
                  ELSE ColumnsOf(call.bams, <<>>)

\* C3 amended: absolute extraction keeps the caller's order; differential
\* extraction orders the pairs by the ascending path order of each list; in
\* both the order is that of submission to the pool and does not depend on
\* the order in which the tasks completed.
C3_ColumnsInSubmissionOrder ==
    Extracted =>
        columns = IF IsDifferential(call.task)
                  THEN ColumnsOf(sorted(call.abams), sorted(call.bbams))
                  ELSE ColumnsOf(call.bams, <<>>)

\* a differential extraction of lists the caller gave out of path order has
\* written its matrix after the second task completed before the first
C3_Witness ==
    /\ Extracted
    /\ IsDifferential(call.task)
    /\ call.abams # sorted(call.abams)
    /\ Len(order) > 1
    /\ order[1] # 1

ExtractOutputs == {f \in FileNames : f[3] \in {"lvl", "cnt"}}

\* C4: when the output file of the run identifier exists, extract_absolute
\* and extract_differential fail with the "exists" condition before any task
\* is given to the pool and leave the file as it is; over any sequence of
\* invocations an extraction output is written at most once.
C4_ExistingOutputNotOverwritten ==
    /\ \A f \in ExtractOutputs : fs[f] <= 1
    /\ err = "exists" => dispatched = 0 /\ nwritten = 0 /\ fs[ExtractFile] = 1

\* a later invocation with the run identifier of a written output has failed
C4_Witness ==
    /\ err = "exists"
    /\ invs > 1
    /\ fs[ExtractFile] = 1

\* C5: every input-validation error of the pipelines (no rank c, unknown
\* column-scaling name, unknown pair-scaling name, A/B prefixes that differ)
\* is raised before a coverage-extraction task is dispatched and before an
\* output file is written.
C5_ValidationBeforeExtraction ==
    err \in {"c", "colsca", "pairsca", "prefix"} => dispatched = 0 /\ nwritten = 0

\* the rank and prefix checks come before the extraction; the scaling names
\* are checked by the scaling stage, after the extraction wrote its matrix
ValidationWhereTheCodeRaises ==
    /\ err \in {"c", "prefix"} => dispatched = 0 /\ nwritten = 0
    /\ err = "pairsca" => dispatched > 0 /\ nwritten = 1
    /\ err = "colsca" => dispatched > 0 /\ nwritten >= 1

TaskFailed == \E k \in 1..Len(pool) : pool[k] = "failed"

\* C11: when an extraction task fails, the extraction stage ends with the
\* failure, the matrix file of that extraction is not written, and no later
\* stage of the pipeline (scaling, factorization) runs.
C11_TaskFailureHaltsPipeline ==
    TaskFailed =>
        /\ fs[ExtractFile] = 0
        /\ pc \in {"pool", "failed"}
        /\ pc = "failed" => err = "task"

\* a pipeline has ended on the failure of one task of two, the other done
C11_Witness ==
    /\ TaskFailed
    /\ pc = "failed"
    /\ IsPipeline(call.task)
    /\ \E k \in 1..Len(pool) : pool[k] = "done"

(***************************************************************************)
(* Properties of the matrix file                                           *)
(***************************************************************************)

\* C12: a matrix file read back by the next stage gives the column names
\* that were written, as many names as data columns, and the number of rows
\* and columns that were written, for every name list a stage produces.
C12_FileRoundTrips ==
    iopc = "done" =>
        /\ rnames = wnames
        /\ Len(rnames) = wshape[2]
        /\ rshape = wshape

\* What holds of the code: the names come back when the first and the last
\* name are not empty, the shape when the matrix has several rows and
\* several columns; an empty name at either end of the header is lost, and
\* a dimension of length 1 is dropped.
RoundTripsWhenNoEmptyEndNoSingleton ==
    iopc = "done" =>
        /\ (wnames[1] # <<>> /\ wnames[Len(wnames)] # <<>>) => rnames = wnames
        /\ (wnames[1] = <<>> \/ wnames[Len(wnames)] = <<>>) => Len(rnames) < Len(wnames)
        /\ (wshape[1] > 1 /\ wshape[2] > 1) => rshape = wshape
        /\ (wshape[1] = 1 \/ wshape[2] = 1) => Len(rshape) < 2

MultiFiles == {<<"", call.runid, "multi_epi">>, <<"", call.runid, "multi_arr">>}

\* discriminatory has extracted and scaled every bed file and has ended
MultiCodeEnded ==
    /\ call.task = "discriminatory"
    /\ pc \in {"done", "failed"}
    /\ nwritten >= 2 * NBeds

\* C13: multi_code_sklearn, given the k scaled arrays and the rank c,
\* terminates having written the code file (k*c rows) and the weight file
\* (one row per row of the stacked input, k*c columns and names).
C13_MultiCodeWritesBothFiles ==
    MultiCodeEnded => pc = "done" /\ \A f \in MultiFiles : fs[f] = 1

\* What the code does: the stage ends on the undefined name with neither
\* file written.
MultiCodeEndsOnNameError ==
    MultiCodeEnded => err = "NameError" /\ \A f \in MultiFiles : fs[f] = 0

(***************************************************************************)
(* Properties of scarr                                                     *)
(***************************************************************************)

ScaCols == 1..2
ScaRows == 1..Len(sarr)
InputCol(c) == [r \in ScaRows |-> sarr[r][c]]

\* C14: sigmoid scaling maps every finite value into [-1, 1], and a column
\* of equal values entirely to 0, also when a half-width is zero and its
\* division is skipped.
C14_SigmoidRangeAndConstantZero ==
    (scpc = "done" /\ IsSig(smethod)) =>
        \A c \in ScaCols :
            /\ \A r \in ScaRows : sdata[c][r][1] \in {"zero", "pos", "neg"}
            /\ IsConstant(InputCol(c)) => \A r \in ScaRows : sdata[c][r][1] = "zero"

\* a matrix of several rows with a constant column, whose half-widths are
\* both zero, and a column that is not constant has been scaled
C14_Witness ==
    /\ scpc = "done"
    /\ IsSig(smethod)
    /\ Len(sarr) > 1
    /\ IsConstant(InputCol(1))
    /\ ~IsConstant(InputCol(2))
    /\ \E r \in ScaRows : sdata[2][r][1] = "pos"

\* the sample standard deviation of the column is 1
StdIsOne(xs) == Len(xs) > 1 /\ VarNum(xs) = VarDen(xs)

Unchanged(c) == \A r \in ScaRows : sdata[c][r] = Entry("raw", sarr[r][c], 0, 0)
AllNaN(c) == \A r \in ScaRows : sdata[c][r] = ENaN

\* C15: whitening maps a constant column entirely to not-a-number (never to
\* an infinity), leaves a column of sample standard deviation 1 unchanged,
\* and a constant column does not affect the other columns.
C15_WhitenConstantIsNaN ==
    (scpc = "done" /\ smethod = "whiten") =>
        \A c \in ScaCols :
            /\ IsConstant(InputCol(c)) => AllNaN(c)
            /\ StdIsOne(InputCol(c)) => Unchanged(c)
            /\ (Len(sarr) > 1 /\ ~IsConstant(InputCol(c))) =>
                  \A r \in ScaRows : sdata[c][r][1] \in {"raw", "over"}

\* What holds of the code: a constant column is not-a-number when the mean
\* of its values is computed exactly; when it is not, the deviation is a
\* rounding error above zero and the entries are divided by it.
WhitenConstantIsNaNWhenMeanExact ==
    (scpc = "done" /\ smethod = "whiten") =>
        \A c \in ScaCols :
            /\ IsConstant(InputCol(c)) =>
                  IF StdClass(InputCol(c)) = "tiny"
                  THEN \A r \in ScaRows : sdata[c][r][1] = "huge"
                  ELSE AllNaN(c)
            /\ StdIsOne(InputCol(c)) => Unchanged(c)
            /\ (Len(sarr) > 1 /\ ~IsConstant(InputCol(c))) =>
                  \A r \in ScaRows : sdata[c][r][1] \in {"raw", "over"}

(***************************************************************************)
(* Properties of the gain/loss names                                       *)
(***************************************************************************)

\* the name without its last two characters
MarkOf(n) == SubSeq(n, 1, Len(n) - 2)
SuffixOf(n) == SubSeq(n, Len(n) - 1, Len(n))

\* C16: each output name is the input name with only its trailing ":a"
\* replaced by ":g" or its trailing ":b" replaced by ":l"; the mark name is
\* unchanged, also when it contains ":a" or ":b".
C16_OnlyTrailingSuffixReplaced ==
    gnpc = "done" =>
        glname = MarkOf(gname) \o (IF SuffixOf(gname) = <<":", "a">>
                                   THEN <<":", "g">> ELSE <<":", "l">>)

\* What holds of the code: both replacements are applied to every name, so
\* beside the rightmost ":a" the rightmost ":b" changes as well; the name is
\* as claimed when it does not contain the token of the other suffix.
BothRightmostTokensReplaced ==
    gnpc = "done" =>
        /\ (SuffixOf(gname) = <<":", "a">> /\ ~Contains(gname, <<":", "b">>)) =>
              glname = MarkOf(gname) \o <<":", "g">>
        /\ (SuffixOf(gname) = <<":", "b">> /\ ~Contains(gname, <<":", "a">>)) =>
              glname = MarkOf(gname) \o <<":", "l">>
        /\ (Contains(gname, <<":", "a">>) /\ Contains(gname, <<":", "b">>)) =>
              glname # MarkOf(gname) \o (IF SuffixOf(gname) = <<":", "a">>
                                         THEN <<":", "g">> ELSE <<":", "l">>)

(***************************************************************************)
(* More properties of parse_bam_differential                               *)
(***************************************************************************)

\* C17: every sub-window queried for a region lies inside the region's
\* [start, end): the last, partial window is cut at end and no counted
\* interval goes past end.
C17_WindowsInsideRegion ==
    \A q \in 1..Len(dqueries) :
        LET reg == dregs[dqueries[q][1]]
        IN  reg[2] <= dqueries[q][3] /\ dqueries[q][4] <= reg[3]

\* What holds of the code: every window starts inside the region and is
\* step wide, so the last one ends less than step past end.
WindowsStartInsideRegion ==
    \A q \in 1..Len(dqueries) :
        LET reg == dregs[dqueries[q][1]]
        IN  /\ reg[2] <= dqueries[q][3] /\ dqueries[q][3] < reg[3]
            /\ dqueries[q][4] = dqueries[q][3] + step
            /\ dqueries[q][4] < reg[3] + step

(***************************************************************************)
(* Properties of parse_bed                                                 *)
(***************************************************************************)

\* the lines read so far that have no negative start, in file order
KeptSoFar == SelectSeq(SubSeq(blines, 1, bline), LAMBDA f : f[2] >= 0)

\* C18: every region parse_bed returns has 0 <= start < end, and the
\* regions kept are in the order of their lines in the file.
C18_RegionsWellFormedInOrder ==
    /\ \A r \in 1..Len(regions) : 0 <= regions[r][2] /\ regions[r][2] < regions[r][3]
    /\ regions = SelectSeq(SubSeq(blines, 1, bline),
                           LAMBDA f : 0 <= f[2] /\ f[2] < f[3])

\* What holds of the code: the lines with a negative start are dropped and
\* nothing else; the end is never compared with the start.
OnlyNegativeStartDropped ==
    /\ regions = KeptSoFar
    /\ \A r \in 1..Len(regions) : 0 <= regions[r][2]

(***************************************************************************)
(* Properties of the column names                                          *)
(***************************************************************************)

\* the file identifiers: the basenames, or the prefixes before "_" of the
\* A files followed by those of the B files
Identifiers ==
    IF smode = "differential"
    THEN [k \in 1..Len(sbams) |-> BeforeUnderscore(sbams[k])]
           \o [k \in 1..Len(sbbams) |-> BeforeUnderscore(sbbams[k])]
    ELSE sbams

\* the substrings of the first identifier found in every identifier
CommonSubstrings ==
    { sub \in { SubSeq(Identifiers[1], a, b) :
                  a \in 1..(Len(Identifiers[1]) + 1), b \in 0..Len(Identifiers[1]) } :
        \A k \in 1..Len(Identifiers) : Contains(Identifiers[k], sub) }

LongestCommon == { sub \in CommonSubstrings : \A o \in CommonSubstrings : Len(o) <= Len(sub) }

\* the length of the longest substring common to all identifiers
CommonLength == Len(CHOOSE sub \in LongestCommon : TRUE)

RECURSIVE WithoutOccurrences(_, _)
\* x without the occurrences of fx, found from left to right
WithoutOccurrences(x, fx) ==
    LET at == { k \in 1..(Len(x) - Len(fx) + 1) : SubSeq(x, k, k + Len(fx) - 1) = fx }
        first == CHOOSE k \in at : \A h \in at : k <= h
    IN  IF at = {} THEN x
        ELSE SubSeq(x, 1, first - 1)
               \o WithoutOccurrences(SubSeq(x, first + Len(fx), Len(x)), fx)

\* the names as columns: the identifiers themselves (absolute), or the A and
\* B identifiers interleaved with ":a" / ":b" appended (differential)
AsColumns(ids) ==
    IF smode = "differential"
    THEN [k \in 1..Len(ids) |->
            IF k % 2 = 1 THEN ids[(k + 1) \div 2] \o <<":", "a">>
            ELSE ids[Len(sbams) + k \div 2] \o <<":", "b">>]
    ELSE ids

ShorteningApplies == sshorten /\ Len(Identifiers) > 1 /\ CommonLength > 6

\* C19: names are shortened only when shortening is requested and the
\* longest substring common to all identifiers has more than 6 characters;
\* then each name is the original without the occurrences of that substring;
\* otherwise (also for a common substring of exactly 6 characters and for a
\* single file in absolute mode) the names are unchanged.
C19_ShortenOnlyAboveSixChars ==
    spc = "done" =>
        IF ShorteningApplies
        THEN \E fx \in LongestCommon :
                snames = AsColumns([k \in 1..Len(Identifiers) |->
                                      WithoutOccurrences(Identifiers[k], fx)])
        ELSE snames = AsColumns(Identifiers)

\* names were shortened, one of them at two places
C19_Witness ==
    /\ spc = "done"
    /\ smode = "absolute"
    /\ ShorteningApplies
    /\ \E k \in 1..Len(sbams) : Len(sbams[k]) - Len(snames[k]) > CommonLength

\* a common substring of exactly 6 characters with shortening requested
SixCharsCommon == spc = "done" /\ sshorten /\ Len(Identifiers) > 1 /\ CommonLength = 6

(***************************************************************************)
(* Totality of the row walk of scale_differential                          *)
(***************************************************************************)

\* the final row of the input has a missing value
FinalRowMissing == AnyNaN(dcols(NRows))

\* a gain or loss value that is a number >= 0
NonNegative(v) == ~IsNaN(v) /\ v[1] >= 0 /\ v[2] > 0

\* the walk ends without an error, having written one row of NCols
\* non-negative values per missing-value row
WalkEndsWell ==
    /\ glpc \notin {"IndexError", "TooManyIndices", "ZeroDivisionError"}
    /\ i <= NRows
    /\ glpc = "done" =>
          /\ i = NRows
          /\ Len(gl) = Len(scaled[1])
          /\ \A k \in 1..NCols :
                /\ Len(gl[k]) = MissingUpTo(NRows)
                /\ \A n \in 1..Len(gl[k]) : NonNegative(gl[k][n])

\* C20: for every input matrix whose final row is a missing-value row the
\* walk ends without reading past the last row, with one output row per
\* missing-value row, every gain and loss >= 0 and as many output columns as
\* input columns.
C20_RowWalkTotal == FinalRowMissing => WalkEndsWell

\* What holds of the code: the same, for the inputs of two rows or more; an
\* input of a single row is never walked.
RowWalkTotalFromTwoRows ==
    /\ (FinalRowMissing /\ NRows >= 2) => WalkEndsWell
    /\ NRows = 1 => glpc \in {"load", "TooManyIndices"}

(***************************************************************************)
(* Properties of two concurrent extractions                                *)
(***************************************************************************)

\* the invocations that have opened the output file for writing
Writers == { p \in Procs : rpc[p] \in {"write", "done"} }

\* the file holds exactly what p wrote
HoldsResultOf(p) == rfile = [k \in 1..LinesOf |-> p]

\* C21: of two concurrent invocations with the same run identifier and
\* output directory at most one writes the output file, and the result of
\* an invocation that has finished is not overwritten by the other.
C21_AtMostOneWriter ==
    /\ Cardinality(Writers) <= 1
    /\ \A p \in Procs : rpc[p] = "done" => HoldsResultOf(p)

\* What holds of the code: an invocation whose check finds the file stops
\* without opening it, and a file that exists before both start is kept.
CheckProtectsOnlyWhenFileSeen ==
    /\ \A p \in Procs : rpc[p] = "exists" => roff[p] = 0 /\ rexists
    /\ rfile = <<"old", "old">> => Writers = {}
    /\ Writers # {} => \E p \in Procs : rpc[p] # "exists"

\* both invocations passed the check and both wrote to the file
BothWrote == \A p \in Procs : rpc[p] = "done"

====
